---- MODULE Spec2Model ----
(***************************************************************************)
(* A model of src/main.rs: Conway's Game of Life on a bordered grid with   *)
(* an FNV-1 fingerprint of the board and a ring buffer of past             *)
(* fingerprints used by the driver loop to detect a repeated board.        *)
(*                                                                         *)
(* Spec    : the driver loop of main (set_live, then reflesh_state,        *)
(*           commit_state, is_done until break), for MaxGen generations.   *)
(* SpecBoard: the same loop on a board with one slot of history.           *)
(* SpecRB  : a RingBuffer on its own, under any interleaving of enqueue    *)
(*           and dequeue.                                                  *)
(***************************************************************************)
EXTENDS Integers, Sequences, FiniteSets

(* ------------------------------ bounds -------------------------------- *)
\* largest interior width and height of a board
MaxW == 3
MaxH == 3
\* largest number of points handed to Board::set_live
MaxSeed == 3
\* largest history capacity handed to Board::new / RingBuffer::new
MaxCap == 2
\* number of generations of the driver loop that are explored
MaxGen == 4

VARIABLES
    array,      \* Board.array: array[y][x] is a Cell, 0 <= y <= height+1
    old_hash,   \* Board.old_hash: the RingBuffer of fingerprints
    width,      \* Board.width
    height,     \* Board.height
    pc,         \* position of main: the next call of the driver loop
    gen,        \* history: number of commit_state calls completed
    trace,      \* history: trace[i] is the set of live cells commit i found
    hashed,     \* history: hashed[i] is the fingerprint commit i enqueued
    rb,         \* SpecRB: the RingBuffer under test
    rbpc,       \* SpecRB: "run", or "panic" once an enqueue has panicked
    enq_log,    \* SpecRB history: the values enqueued, in order
    deq_log,    \* SpecRB history: what each dequeue returned and should have
    pending     \* SpecRB history: the values enqueued, not dequeued, not evicted

vars == <<array, old_hash, width, height, pc, gen, trace, hashed,
          rb, rbpc, enq_log, deq_log, pending>>
boardVars == <<array, old_hash, width, height, pc, gen, trace, hashed>>
rbVars == <<rb, rbpc, enq_log, deq_log, pending>>

\* F applied to the value of e: `let v = e;` followed by F(v). The value is
\* bound by a quantifier, so it is computed once however often F uses it.
Bind(F(_), e) == CHOOSE r \in {F(v) : v \in {e}} : TRUE

(* --------------------- usize: 64-bit wrapping words ------------------- *)
\* A usize is held as four 16-bit limbs, least significant first.
LimbBase == 2 ^ 16

\* the usize of a number below 2^31 (every number the model converts is)
U64(n) == <<n % LimbBase, n \div LimbBase, 0, 0>>

\* Wrapping(a) * Wrapping(b): the schoolbook product, the columns beyond
\* the fourth limb cut off by the wrap at 2^64
WrappingMul(a, b) ==
    LET c1 == a[1] * b[1]
        c2 == a[1] * b[2] + a[2] * b[1] + (c1 \div LimbBase)
        c3 == a[1] * b[3] + a[2] * b[2] + a[3] * b[1] + (c2 \div LimbBase)
        c4 == a[1] * b[4] + a[2] * b[3] + a[3] * b[2] + a[4] * b[1]
              + (c3 \div LimbBase)
    IN  <<c1 % LimbBase, c2 % LimbBase, c3 % LimbBase, c4 % LimbBase>>

RECURSIVE XorNat(_, _)
XorNat(a, b) ==
    IF a = 0 THEN b
    ELSE IF b = 0 THEN a
    ELSE (((a % 2) + (b % 2)) % 2) + 2 * XorNat(a \div 2, b \div 2)

\* a ^ b
BitXor(a, b) ==
    <<XorNat(a[1], b[1]), XorNat(a[2], b[2]),
      XorNat(a[3], b[3]), XorNat(a[4], b[4])>>

\* 14695981039346656037 = 0xCBF2_9CE4_8422_2325
OFFSET_BASIS64 == <<8997, 33826, 40164, 52210>>
\* 1099511628211 = 0x0000_0100_0000_01B3
FNV_PRIME_64 == <<435, 0, 256, 0>>
\* the usize 0 that Board::new hands to RingBuffer::new
ZeroHash == U64(0)

(* -------------------------------- Cell -------------------------------- *)
Cell_new == [now_state |-> "Dead", count |-> 0]

Cell_touch(cell) == [cell EXCEPT !.count = @ + 1]

Cell_untouch(cell) == [cell EXCEPT !.count = @ - 1]

Cell_is_live(cell) == cell.now_state = "Live"

\* faulty variant: a cell with two live neighbours is born
Cell_commit_state_born2(cell) ==
    [now_state |-> CASE cell.count = 3 -> "Live"
                     [] cell.count = 2 -> "Live"
                     [] OTHER -> "Dead",
     count |-> 0]

\* faulty variant: the count is not reset
Cell_commit_state_keeps_count(cell) ==
    [now_state |-> CASE cell.count = 3 -> "Live"
                     [] cell.count = 2 -> cell.now_state
                     [] OTHER -> "Dead",
     count |-> cell.count]

Cell_commit_state(cell) ==
    [now_state |-> CASE cell.count = 3 -> "Live"
                     [] cell.count = 2 -> cell.now_state
                     [] OTHER -> "Dead",
     count |-> 0]

Cell_set_state(cell, state) == [cell EXCEPT !.now_state = state]

(* -------------------------------- FNV1 -------------------------------- *)
\* rows and columns the loops 1..len-1 run over
RowsOf(cells) == Cardinality(DOMAIN cells) - 2
ColsOf(cells) == Cardinality(DOMAIN cells[0]) - 2

\* faulty variant: the term is not masked by liveness
HashTerm_unmasked(cells, x, y) == U64((x + x) * (y + y))

\* faulty variant: the term is masked by the touch count, not by liveness
HashTerm_touched(cells, x, y) ==
    IF cells[y][x].count > 0 THEN U64((x + x) * (y + y)) ELSE U64(0)

\* faulty variant: the coordinates are not doubled
HashTerm_xy(cells, x, y) ==
    IF Cell_is_live(cells[y][x]) THEN U64(x * y) ELSE U64(0)

\* (Wrapping(x + x) * Wrapping(y + y)).0 * if live { 1 } else { 0 }
HashTerm(cells, x, y) ==
    IF Cell_is_live(cells[y][x]) THEN U64((x + x) * (y + y)) ELSE U64(0)

\* faulty variant: the loops are nested the other way round (column-major)
RECURSIVE Hash64Loop_colmajor(_, _, _, _, _)
Hash64Loop_colmajor(cells, w, n, hash, k) ==
    IF k >= n THEN hash
    ELSE Bind(LAMBDA h : Hash64Loop_colmajor(cells, w, n, h, k + 1),
              BitXor(WrappingMul(FNV_PRIME_64, hash),
                     HashTerm(cells, 1 + (k \div (n \div w)), 1 + (k % (n \div w)))))

\* the two loops, as one over k = (y - 1) * w + (x - 1)
RECURSIVE Hash64Loop(_, _, _, _, _)
Hash64Loop(cells, w, n, hash, k) ==
    IF k >= n THEN hash
    ELSE Bind(LAMBDA h : Hash64Loop(cells, w, n, h, k + 1),
              BitXor(WrappingMul(FNV_PRIME_64, hash),
                     HashTerm(cells, 1 + (k % w), 1 + (k \div w))))

FNV1_hash64(cells) ==
    Bind(LAMBDA w : Hash64Loop(cells, w, RowsOf(cells) * w, OFFSET_BASIS64, 0),
         ColsOf(cells))

(* ----------------------------- RingBuffer ----------------------------- *)
\* buf is indexed 0 .. buf_capacity-1
RingBuffer_new(buffer_capacity, init_data) ==
    [buf |-> [i \in 0 .. buffer_capacity - 1 |-> init_data],
     write |-> 0, read |-> 0, buf_size |-> 0,
     buf_capacity |-> buffer_capacity]

\* `% self.buf_capacity` with a capacity of 0 panics (remainder by zero)
EnqueuePanics(r) == ~(r.buf_size < r.buf_capacity) /\ r.buf_capacity = 0

\* faulty variant: the write cursor is ignored, slot 0 is always written
RingBuffer_enqueue_slot0(r, data) ==
    LET r1 == IF r.buf_size < r.buf_capacity
              THEN [r EXCEPT !.buf_size = @ + 1]
              ELSE [r EXCEPT !.read = (@ % r.buf_capacity) + 1]
    IN  [r1 EXCEPT !.buf[0] = data, !.write = (@ % r.buf_capacity) + 1]

\* faulty variant: a full buffer drops the new value instead of the oldest
RingBuffer_enqueue_dropfull(r, data) ==
    IF r.buf_size < r.buf_capacity
    THEN LET w == r.write % r.buf_capacity
         IN  [r EXCEPT !.buf_size = @ + 1, !.buf[w] = data, !.write = w + 1]
    ELSE r

\* faulty variant: a full buffer overwrites without advancing the read cursor
RingBuffer_enqueue_noevict(r, data) ==
    LET r1 == IF r.buf_size < r.buf_capacity
              THEN [r EXCEPT !.buf_size = @ + 1]
              ELSE r
        w == r1.write % r1.buf_capacity
    IN  [r1 EXCEPT !.buf[w] = data, !.write = w + 1]

RingBuffer_enqueue(r, data) ==
    LET r1 == IF r.buf_size < r.buf_capacity
              THEN [r EXCEPT !.buf_size = @ + 1]
              ELSE [r EXCEPT !.read = (@ % r.buf_capacity) + 1]
        w == r1.write % r1.buf_capacity
    IN  [r1 EXCEPT !.buf[w] = data, !.write = w + 1]

\* dequeue returns None when buf_size is 0
DequeueIsNone(r) == ~(r.buf_size > 0)

RingBuffer_dequeue_data(r) == r.buf[r.read % r.buf_capacity]

\* faulty variant: an empty buffer still advances the read cursor
RingBuffer_dequeue_empty_advances(r) ==
    IF DequeueIsNone(r) THEN [r EXCEPT !.read = @ + 1]
    ELSE [r EXCEPT !.buf_size = @ - 1, !.read = (@ % r.buf_capacity) + 1]

\* faulty variant: the read cursor stays where it is
RingBuffer_dequeue_stale_read(r) ==
    IF DequeueIsNone(r) THEN r ELSE [r EXCEPT !.buf_size = @ - 1]

RingBuffer_dequeue(r) ==
    IF DequeueIsNone(r) THEN r
    ELSE [r EXCEPT !.buf_size = @ - 1, !.read = (@ % r.buf_capacity) + 1]

\* faulty variant: the scan starts one slot late
RingBuffer_is_in_data_skip0(r, data) ==
    \E i \in DOMAIN r.buf : i >= 1 /\ r.buf[i] = data

RingBuffer_is_in_data(r, data) == \E i \in DOMAIN r.buf : r.buf[i] = data

(* -------------------------------- Board ------------------------------- *)
Board_new_array(x, y) == [yy \in 0 .. y + 1 |-> [xx \in 0 .. x + 1 |-> Cell_new]]

Board_new_old_hash(board_histories) == RingBuffer_new(board_histories, ZeroHash)

\* points are 0-based interior coordinates <<x, y>>
Board_set_live(a, points) ==
    [yy \in DOMAIN a |-> [xx \in DOMAIN a[yy] |->
        IF <<xx - 1, yy - 1>> \in points
        THEN Cell_set_state(a[yy][xx], "Live") ELSE a[yy][xx]]]

\* faulty variant: the eight neighbours are touched, the cell itself is not
TouchBlock_neighbours(a, x, y) ==
    [yy \in DOMAIN a |-> [xx \in DOMAIN a[yy] |->
        IF yy \in y - 1 .. y + 1 /\ xx \in x - 1 .. x + 1 /\ <<xx, yy>> # <<x, y>>
        THEN Cell_touch(a[yy][xx]) ELSE a[yy][xx]]]

\* the two inner loops: touch() on the 3 x 3 block around (x, y)
TouchBlock(a, x, y) ==
    [yy \in DOMAIN a |-> [xx \in DOMAIN a[yy] |->
        IF yy \in y - 1 .. y + 1 /\ xx \in x - 1 .. x + 1
        THEN Cell_touch(a[yy][xx]) ELSE a[yy][xx]]]

\* faulty variant: the cell's own touch is not taken back
NotifyNeighbours_nountouch(a, x, y) == TouchBlock(a, x, y)

\* the body of the loops for one live cell: the touches, then untouch()
NotifyNeighbours(a, x, y) ==
    Bind(LAMBDA t : [t EXCEPT ![y][x] = Cell_untouch(@)], TouchBlock(a, x, y))

\* the body of the two outer loops at (x, y)
RefleshCell(a, x, y) ==
    IF Cell_is_live(a[y][x]) THEN NotifyNeighbours(a, x, y) ELSE a

\* the two outer loops, as one over k = (y - 1) * w + (x - 1)
RECURSIVE RefleshLoop(_, _, _, _)
RefleshLoop(a, w, n, k) ==
    IF k >= n THEN a
    ELSE Bind(LAMBDA b : RefleshLoop(b, w, n, k + 1),
              Bind(LAMBDA x : RefleshCell(a, x, 1 + (k \div w)), 1 + (k % w)))

\* the touch phase step by step: for every live interior cell in loop
\* order, its position and the grid as its untouch() call finds it (the
\* nine touches done)
RECURSIVE TouchPhase(_, _, _, _)
TouchPhase(a, w, n, k) ==
    IF k >= n THEN <<>>
    ELSE LET x == 1 + (k % w)
             y == 1 + (k \div w)
         IN  IF Cell_is_live(a[y][x])
             THEN Bind(LAMBDA t :
                          <<[x |-> x, y |-> y, touched |-> t]>>
                              \o TouchPhase([t EXCEPT ![y][x] = Cell_untouch(@)],
                                            w, n, k + 1),
                       TouchBlock(a, x, y))
             ELSE TouchPhase(a, w, n, k + 1)

Board_reflesh_state(a) ==
    Bind(LAMBDA w : RefleshLoop(a, w, RowsOf(a) * w, 0), ColsOf(a))

\* faulty variant: the fingerprint is taken of the cells once committed
Board_to_hash_committed(a) ==
    FNV1_hash64([yy \in DOMAIN a |->
                    [xx \in DOMAIN a[yy] |-> Cell_commit_state(a[yy][xx])]])

Board_to_hash(a) == FNV1_hash64(a)

\* the cells after commit_state: every cell of the grid is committed
Board_commit_cells(a) ==
    [yy \in DOMAIN a |-> [xx \in DOMAIN a[yy] |-> Cell_commit_state(a[yy][xx])]]

Board_is_done(a, h) == RingBuffer_is_in_data(h, Board_to_hash(a))

(* ------------------------- the driver loop: Spec ---------------------- *)
InteriorPoints(w, h) == (0 .. w - 1) \X (0 .. h - 1)

\* the 2 x 2 blocks (still lifes) that fit in the interior
BlockSeeds(w, h) ==
    {{<<x, y>>, <<x + 1, y>>, <<x, y + 1>>, <<x + 1, y + 1>>} :
        <<x, y>> \in (0 .. w - 2) \X (0 .. h - 2)}

\* the seed with every interior cell live
FullSeeds(w, h) == {InteriorPoints(w, h)}

\* the seeds explored: every set of at most MaxSeed interior points, the
\* blocks and the full board
SeedsOf(w, h) ==
    {s \in SUBSET InteriorPoints(w, h) : Cardinality(s) <= MaxSeed}
        \cup BlockSeeds(w, h) \cup FullSeeds(w, h)

\* the live interior cells of a grid, as 0-based interior coordinates
LivePoints(a) ==
    {p \in InteriorPoints(ColsOf(a), RowsOf(a)) :
        Cell_is_live(a[p[2] + 1][p[1] + 1])}

\* all live cells of a grid, border included, in the same coordinates
\* (a border cell has a coordinate -1, width or height)
LiveCells(a) ==
    {<<c[2] - 1, c[1] - 1>> : c \in
        {c \in (DOMAIN a) \X (DOMAIN a[0]) : Cell_is_live(a[c[1]][c[2]])}}

RBIdle ==
    /\ rb = RingBuffer_new(0, 0)
    /\ rbpc = "idle"
    /\ enq_log = <<>>
    /\ deq_log = <<>>
    /\ pending = <<>>

\* Board::new(x, y, board_histories)
Init ==
    /\ width \in 1 .. MaxW
    /\ height \in 1 .. MaxH
    /\ array = Board_new_array(width, height)
    /\ old_hash \in {Board_new_old_hash(c) : c \in 0 .. MaxCap}
    /\ pc = "set_live"
    /\ gen = 0
    /\ trace = <<>>
    /\ hashed = <<>>
    /\ RBIdle

\* board.set_live(points)
SetLive ==
    /\ pc = "set_live"
    /\ \E points \in SeedsOf(width, height) :
          array' = Board_set_live(array, points)
    /\ pc' = "reflesh_state"
    /\ UNCHANGED <<old_hash, width, height, gen, trace, hashed, rbVars>>

\* board.reflesh_state()
RefleshState ==
    /\ pc = "reflesh_state"
    /\ gen < MaxGen
    /\ array' = Board_reflesh_state(array)
    /\ pc' = "commit_state"
    /\ UNCHANGED <<old_hash, width, height, gen, trace, hashed, rbVars>>

\* board.commit_state(): the enqueue panics before any cell is committed
CommitStatePanic ==
    /\ pc = "commit_state"
    /\ EnqueuePanics(old_hash)
    /\ pc' = "panic"
    /\ UNCHANGED <<array, old_hash, width, height, gen, trace, hashed, rbVars>>

\* board.commit_state()
CommitState ==
    /\ pc = "commit_state"
    /\ ~EnqueuePanics(old_hash)
    /\ \E h \in {Board_to_hash(array)} :
          /\ old_hash' = RingBuffer_enqueue(old_hash, h)
          /\ hashed' = Append(hashed, h)
    /\ array' = Board_commit_cells(array)
    /\ gen' = gen + 1
    /\ trace' = Append(trace, LiveCells(array))
    /\ pc' = "is_done"
    /\ UNCHANGED <<width, height, rbVars>>

\* board.show_board(); if board.is_done() { break }
IsDone ==
    /\ pc = "is_done"
    /\ pc' = IF Board_is_done(array, old_hash) THEN "done" ELSE "reflesh_state"
    /\ UNCHANGED <<array, old_hash, width, height, gen, trace, hashed, rbVars>>

Next ==
    \/ SetLive
    \/ RefleshState
    \/ CommitStatePanic
    \/ CommitState
    \/ IsDone

Spec == Init /\ [][Next]_vars

(* ------------- the driver loop with one slot of history: SpecBoard ---- *)
\* Board::new(x, y, 1): the runs of the cells and of the fingerprint, which
\* the history only cuts short; one slot cuts them the least
InitBoard ==
    /\ width \in 1 .. MaxW
    /\ height \in 1 .. MaxH
    /\ array = Board_new_array(width, height)
    /\ old_hash = Board_new_old_hash(1)
    /\ pc = "set_live"
    /\ gen = 0
    /\ trace = <<>>
    /\ hashed = <<>>
    /\ RBIdle

NextBoard ==
    \/ SetLive
    \/ RefleshState
    \/ CommitState
    \/ IsDone

SpecBoard == InitBoard /\ [][NextBoard]_vars

(* ---------------------- a RingBuffer alone: SpecRB -------------------- *)
\* the values enqueued: one more than the largest capacity
RBValues == 0 .. MaxCap
\* the number of operations explored
MaxOps == MaxCap + 3

None == <<>>
Some(v) == <<v>>

BoardIdle ==
    /\ width = 0
    /\ height = 0
    /\ array = Board_new_array(0, 0)
    /\ old_hash = Board_new_old_hash(0)
    /\ pc = "idle"
    /\ gen = 0
    /\ trace = <<>>
    /\ hashed = <<>>

\* RingBuffer::new(buffer_capacity, init_data)
InitRB ==
    /\ rb \in {RingBuffer_new(c, d) : c \in 0 .. MaxCap, d \in RBValues}
    /\ rbpc = "run"
    /\ enq_log = <<>>
    /\ deq_log = <<>>
    /\ pending = <<>>
    /\ BoardIdle

OpsDone == Len(enq_log) + Len(deq_log)

\* rb.enqueue(data) on a buffer of capacity 0
RBEnqueuePanic ==
    /\ rbpc = "run"
    /\ OpsDone < MaxOps
    /\ EnqueuePanics(rb)
    /\ rbpc' = "panic"
    /\ UNCHANGED <<rb, enq_log, deq_log, pending, boardVars>>

\* rb.enqueue(data)
RBEnqueue ==
    /\ rbpc = "run"
    /\ OpsDone < MaxOps
    /\ ~EnqueuePanics(rb)
    /\ \E data \in RBValues :
          /\ rb' = RingBuffer_enqueue(rb, data)
          /\ enq_log' = Append(enq_log, data)
          /\ pending' = IF Len(pending) < rb.buf_capacity
                        THEN Append(pending, data)
                        ELSE Append(Tail(pending), data)
    /\ UNCHANGED <<rbpc, deq_log, boardVars>>

\* rb.dequeue()
RBDequeue ==
    /\ rbpc = "run"
    /\ OpsDone < MaxOps
    /\ rb' = RingBuffer_dequeue(rb)
    /\ deq_log' = Append(deq_log,
          [ret |-> IF DequeueIsNone(rb) THEN None
                   ELSE Some(RingBuffer_dequeue_data(rb)),
           oldest |-> IF pending = <<>> THEN None ELSE Some(Head(pending)),
           enqueued |-> Len(enq_log)])
    /\ pending' = IF pending = <<>> THEN pending ELSE Tail(pending)
    /\ UNCHANGED <<rbpc, enq_log, boardVars>>

NextRB ==
    \/ RBEnqueuePanic
    \/ RBEnqueue
    \/ RBDequeue

SpecRB == InitRB /\ [][NextRB]_vars

(* ============================== properties ============================ *)
Capacity == old_hash.buf_capacity

Min(a, b) == IF a < b THEN a ELSE b

\* the interior liveness after k generations, 0 <= k <= gen
StateAt(k) ==
    IF k < gen THEN trace[k + 1] \cap InteriorPoints(width, height)
    ELSE LivePoints(array)

\* the state after j generations repeats the state after i, at most
\* Capacity generations earlier
ShortCycle(i, j) ==
    /\ 0 <= i /\ i < j /\ j <= gen
    /\ j - i <= Capacity
    /\ StateAt(i) = StateAt(j)

\* the fingerprints enqueued by the last min(gen, Capacity) commits
LastHashes == {hashed[i] : i \in (gen - Min(gen, Capacity) + 1) .. gen}

\* Conway's rule for interior point p, on a set of live interior points:
\* whatever is not an interior point counts as dead
LiveNeighbours(live, p) ==
    Cardinality({q \in live : /\ q # p
                              /\ q[1] - p[1] \in {-1, 0, 1}
                              /\ q[2] - p[2] \in {-1, 0, 1}})

ConwayLive(live, p) ==
    \/ p \notin live /\ LiveNeighbours(live, p) = 3
    \/ p \in live /\ LiveNeighbours(live, p) \in {2, 3}

BorderCells(a) ==
    {c \in (DOMAIN a) \X (DOMAIN a[0]) :
        \/ c[1] = 0 \/ c[1] = RowsOf(a) + 1
        \/ c[2] = 0 \/ c[2] = ColsOf(a) + 1}

\* C1: a generation (reflesh_state, then commit_state) from a board with
\* all touch counts 0 leaves every interior cell at its Conway value,
\* computed from the interior liveness before the generation with
\* everything outside the interior counted as dead.
C1_RuleCorrectness ==
    (pc = "is_done") =>
        \A p \in InteriorPoints(width, height) :
            Cell_is_live(array[p[2] + 1][p[1] + 1])
                <=> ConwayLive(StateAt(gen - 1), p)

\* two generations: in the first a cell was born, one survived and one
\* died; in the second a cell died that would have survived had its live
\* border neighbour been counted
C1_Witness ==
    /\ pc = "is_done"
    /\ gen = 2
    /\ \E p \in StateAt(1) : p \notin StateAt(0)
    /\ \E p \in StateAt(1) : p \in StateAt(0)
    /\ \E p \in StateAt(0) : p \notin StateAt(1)
    /\ \E p \in StateAt(1) :
          /\ p \notin StateAt(2)
          /\ LiveNeighbours(trace[2], p) \in {2, 3}

\* C2: after any number of generations every border cell is dead and has
\* touch count 0.
C2_BorderInvariance ==
    (pc \in {"reflesh_state", "is_done", "done"}) =>
        \A c \in BorderCells(array) :
            /\ ~Cell_is_live(array[c[1]][c[2]])
            /\ array[c[1]][c[2]].count = 0

\* C3: after the n-th commit, is_done is true exactly when the fingerprint
\* of the board is among those enqueued by the last min(n, C) commits.
C3_IsDoneIffRecentFingerprint ==
    (pc = "is_done" /\ gen >= 1) =>
        (Board_is_done(array, old_hash) <=> Board_to_hash(array) \in LastHashes)

\* the fingerprint is that of an evicted entry only, and is_done is false
C3_Witness ==
    /\ pc = "is_done"
    /\ Capacity >= 1
    /\ gen > Capacity
    /\ \E i \in 1 .. gen : hashed[i] = Board_to_hash(array)
    /\ ~Board_is_done(array, old_hash)

\* C4: with a cycle of period p <= C entered after t generations (states
\* t and t + p of the trajectory coincide), the loop is halted at a
\* generation n <= t + p: it is never found running past generation t + p;
\* and once halted it takes no further step.
C4_Termination ==
    /\ (Capacity >= 1 /\ pc # "set_live") =>
          \A i \in 0 .. gen : \A j \in 0 .. gen :
              ShortCycle(i, j) => (gen = j /\ pc \in {"is_done", "done"})
    /\ (pc = "done") => ~ENABLED Next

\* halted on a cycle entered after at least one transient generation
C4_Witness ==
    /\ pc = "done"
    /\ Capacity >= 1
    /\ \E i \in 1 .. gen - 1 : ShortCycle(i, gen)
    /\ \A i \in 0 .. gen : \A j \in 0 .. gen - 1 : ~ShortCycle(i, j)

\* C5: the loop halts only on a state revisited within C generations, so
\* a trajectory without one is never found done; nor does the loop stop
\* otherwise (a capacity of 0 aside, which panics).
C5_LookbackLimitation ==
    /\ (pc = "done") => \E i \in 0 .. gen - 1 : ShortCycle(i, gen)
    /\ (pc = "panic") => Capacity = 0

\* a board that came back to its seed after more than C generations, and
\* the loop still runs
C5_Witness ==
    /\ pc = "reflesh_state"
    /\ Capacity >= 1
    /\ gen > Capacity + 1
    /\ \E i \in 0 .. gen - 1 : StateAt(i) = StateAt(gen)
    /\ \A i \in 0 .. gen : \A j \in 0 .. gen : ~ShortCycle(i, j)

\* C6: a seed that is a fixed point of the rule halts the loop after
\* exactly one generation.
C6_StillLifeHaltsAtOnce ==
    (gen >= 1 /\ StateAt(1) = StateAt(0)) =>
        /\ gen = 1
        /\ pc \in {"is_done", "done"}
        /\ (pc = "is_done") => Board_is_done(array, old_hash)

\* a block, halted after one generation
C6_Witness ==
    /\ pc = "done"
    /\ gen = 1
    /\ StateAt(0) \in BlockSeeds(width, height)
    /\ StateAt(1) = StateAt(0)

\* the blinkers whose two phases both lie in the interior
Blinkers(w, h) ==
    UNION {{ {<<x - 1, y>>, <<x, y>>, <<x + 1, y>>},
             {<<x, y - 1>>, <<x, y>>, <<x, y + 1>>} } :
           <<x, y>> \in (1 .. w - 2) \X (1 .. h - 2)}

\* C7: seeded with a blinker, with capacity >= 2, is_done is first true
\* at generation 2 or 3.
C7_OscillatorDetection ==
    (gen >= 1 /\ Capacity >= 2 /\ StateAt(0) \in Blinkers(width, height)) =>
        /\ (pc = "done") => gen \in {2, 3}
        /\ (gen >= 3) => (gen = 3 /\ pc \in {"is_done", "done"})

\* a blinker halted at generation 2, back in its first phase
C7_Witness ==
    /\ pc = "done"
    /\ gen = 2
    /\ Capacity >= 2
    /\ StateAt(0) \in Blinkers(width, height)
    /\ StateAt(1) # StateAt(0)
    /\ StateAt(2) = StateAt(0)

Distinct(seq) ==
    \A i \in DOMAIN seq : \A j \in DOMAIN seq : i # j => seq[i] # seq[j]

\* C8: after C + 1 pairwise distinct values were enqueued on a fresh
\* buffer of capacity C >= 1, the first is not found and the others are.
C8_Eviction ==
    (/\ rbpc = "run" /\ rb.buf_capacity >= 1 /\ deq_log = <<>>
     /\ Len(enq_log) = rb.buf_capacity + 1 /\ Distinct(enq_log)) =>
        /\ ~RingBuffer_is_in_data(rb, enq_log[1])
        /\ \A i \in 2 .. rb.buf_capacity + 1 :
              RingBuffer_is_in_data(rb, enq_log[i])

C8_Witness ==
    /\ rbpc = "run" /\ rb.buf_capacity = MaxCap /\ deq_log = <<>>
    /\ Len(enq_log) = rb.buf_capacity + 1 /\ Distinct(enq_log)
    /\ ~RingBuffer_is_in_data(rb, enq_log[1])

\* C9: every successful dequeue returns the oldest value enqueued, not
\* yet dequeued and not evicted; k < C enqueues followed by k dequeues
\* return the values in insertion order.
C9_FifoOrder ==
    /\ \A i \in DOMAIN deq_log :
          deq_log[i].ret # None => deq_log[i].ret = deq_log[i].oldest
    /\ (/\ rbpc = "run" /\ Len(enq_log) < rb.buf_capacity
        /\ Len(deq_log) = Len(enq_log)
        /\ \A i \in DOMAIN deq_log : deq_log[i].enqueued = Len(enq_log)) =>
          \A i \in DOMAIN deq_log : deq_log[i].ret = Some(enq_log[i])

\* two values dequeued in order after an overflow evicted an older one
C9_Witness ==
    /\ Len(enq_log) > rb.buf_capacity
    /\ Len(deq_log) = 2
    /\ deq_log[1].enqueued = Len(enq_log)
    /\ deq_log[1].ret # None /\ deq_log[2].ret # None
    /\ deq_log[1].ret # deq_log[2].ret
    /\ deq_log[1].ret = Some(enq_log[Len(enq_log) - 1])

\* C10: RingBuffer::new(0, v) is rejected: no buffer of capacity 0 is
\* handed out whose enqueue then fails.
C10_ZeroCapacityRejected == ~(rb.buf_capacity = 0 /\ rbpc = "panic")

\* C11: a dequeue on a buffer with buf_size = 0, fresh or drained, returns
\* None and leaves buf, write, read and buf_size as they were.
C11_EmptyDequeue ==
    [][(rb.buf_size = 0 /\ Len(deq_log') = Len(deq_log) + 1) =>
          /\ deq_log'[Len(deq_log')].ret = None
          /\ rb'.buf = rb.buf
          /\ rb'.write = rb.write
          /\ rb'.read = rb.read
          /\ rb'.buf_size = rb.buf_size]_vars

\* a dequeue returned None on a buffer that had been filled and drained,
\* its cursors away from 0
C11_Witness ==
    /\ rb.buf_capacity >= 1
    /\ rb.buf_size = 0
    /\ rb.read >= 1
    /\ Len(deq_log) >= 2
    /\ deq_log[Len(deq_log)].ret = None
    /\ deq_log[Len(deq_log)].enqueued >= 1
    /\ deq_log[Len(deq_log) - 1].ret # None

\* the board Board::new(w, h, _) followed by set_live(live) gives: no touch
\* count, a dead border
SeededBoard(w, h, live) == Board_set_live(Board_new_array(w, h), live)

\* the values held in the slots of the history
HistoryValues == {old_hash.buf[i] : i \in DOMAIN old_hash.buf}

\* C12: commit_state enqueues the fingerprint of the board as it is before
\* the cells are committed; after n generations the history holds, newest
\* at write - 1 and going back, the fingerprints of the states before the
\* last min(n, C) commits and no other fingerprint, so the fingerprint of
\* the state the latest commit produced is found there only if it equals
\* one of those.
C12_HistoryHoldsPrecedingStates ==
    (pc = "is_done") =>
        /\ hashed[gen] = FNV1_hash64(SeededBoard(width, height, StateAt(gen - 1)))
        /\ \A j \in 1 .. Min(gen, Capacity) :
              old_hash.buf[(old_hash.write + Capacity - j) % Capacity]
                  = hashed[gen + 1 - j]
        /\ HistoryValues =
              LastHashes \cup (IF gen < Capacity THEN {ZeroHash} ELSE {})
        /\ (gen < Capacity) =>   \* otherwise the line above says it all
              \A h \in {Board_to_hash(array)} :
                  h \in HistoryValues => h \in LastHashes

\* more commits than slots: the oldest fingerprint is gone, the latest
\* ones are held, and the new state's fingerprint is not among them
C12_Witness ==
    /\ pc = "is_done"
    /\ Capacity >= 1
    /\ gen > Capacity
    /\ hashed[1] \notin HistoryValues
    /\ hashed[gen] # hashed[gen - 1]
    /\ Board_to_hash(array) \notin HistoryValues

\* the cells of a grid, border included, as <<row, column>>
GridCells(a) == (DOMAIN a) \X (DOMAIN a[0])

\* the steps of the touch phase that reflesh_state is about to run
TouchSteps == TouchPhase(array, width, width * height, 0)

\* C13: whenever reflesh_state calls untouch on a cell, the touch count
\* of that cell is at least 1, so the decrement never underflows.
C13_UntouchNeverUnderflows ==
    (pc = "reflesh_state") =>
        \A steps \in {TouchSteps} : \A i \in DOMAIN steps :
            steps[i].touched[steps[i].y][steps[i].x].count >= 1

\* untouch has run on a live cell without live neighbours: its count was
\* exactly 1 and is back to 0; another one had live neighbours
C13_Witness ==
    /\ pc = "commit_state"
    /\ \E p \in LivePoints(array) : array[p[2] + 1][p[1] + 1].count = 0
    /\ \E p \in LivePoints(array) : array[p[2] + 1][p[1] + 1].count >= 1

\* C14: no touch count exceeds 9 at any point of the touch phase, and
\* right after commit_state every cell, border included, has count 0.
C14_TouchCountBounds ==
    /\ (pc = "reflesh_state") =>
          \A steps \in {TouchSteps} : \A i \in DOMAIN steps :
              \A c \in GridCells(array) :
                  steps[i].touched[c[1]][c[2]].count <= 9
    /\ (pc = "commit_state") =>
          \A c \in GridCells(array) : array[c[1]][c[2]].count <= 9
    /\ (pc \in {"is_done", "reflesh_state"}) =>
          \A c \in GridCells(array) : array[c[1]][c[2]].count = 0

\* the touch phase on a board with a cell whose eight neighbours are live
C14_AllNeighboursLive ==
    /\ pc = "commit_state"
    /\ \E c \in GridCells(array) : array[c[1]][c[2]].count = 8
    /\ \E c \in BorderCells(array) : array[c[1]][c[2]].count = 3

\* C15: after reflesh_state on a board with all counts 0, the count of
\* every cell, interior or border, is the number of live interior cells
\* among its eight neighbours, itself not counted.
C15_CountIsLiveNeighbours ==
    (pc = "commit_state") =>
        \A live \in {LivePoints(array)} : \A c \in GridCells(array) :
            array[c[1]][c[2]].count
                = LiveNeighbours(live, <<c[2] - 1, c[1] - 1>>)

\* counted on a board where a live cell has live interior neighbours and
\* a live border neighbour, which is not counted
C15_Witness ==
    /\ pc = "commit_state"
    /\ \E p \in LivePoints(array) :
          /\ array[p[2] + 1][p[1] + 1].count >= 1
          /\ LiveNeighbours(LiveCells(array), p)
                > LiveNeighbours(LivePoints(array), p)

\* C16: the fingerprint depends on the liveness of the interior cells only:
\* a board, whatever its touch counts, the liveness of its border and its
\* history, has the fingerprint of the freshly seeded board of the same
\* dimensions and interior liveness (so two boards that agree on the
\* interior have the same one).
C16_HashOfInteriorLivenessOnly ==
    (pc = "commit_state") =>
        Board_to_hash(array)
            = Board_to_hash(SeededBoard(width, height, LivePoints(array)))

\* a board with touch counts, a live border cell and a written history
C16_Witness ==
    /\ pc = "commit_state"
    /\ gen >= 1
    /\ LivePoints(array) # {}
    /\ LiveCells(array) # LivePoints(array)
    /\ \E p \in InteriorPoints(width, height) : array[p[2] + 1][p[1] + 1].count > 0
    /\ old_hash.buf_size >= 1

\* the FNV-1 fold of a sequence of terms, from the offset basis:
\* hash := (FNV_PRIME_64 * hash mod 2^64) XOR term
RECURSIVE FnvFold(_, _)
FnvFold(terms, i) ==
    IF i = 0 THEN OFFSET_BASIS64
    ELSE Bind(LAMBDA h : BitXor(WrappingMul(FNV_PRIME_64, h), terms[i]),
              FnvFold(terms, i - 1))

\* the k-th interior cell in row-major order is at column ColOf(k) of
\* row RowOf(k) of the grid
ColOf(k) == 1 + ((k - 1) % width)
RowOf(k) == 1 + ((k - 1) \div width)

\* the terms of the interior cells in row-major order: F(x, y) for a live
\* cell, 0 for a dead one
TermsOf(F(_, _)) ==
    [k \in 1 .. width * height |->
        IF Cell_is_live(array[RowOf(k)][ColOf(k)])
        THEN U64(F(ColOf(k), RowOf(k))) ELSE U64(0)]

\* C17, as stated: the fingerprint is the fold, over the interior cells in
\* row-major order, of the terms x * y for a live cell and 0 for a dead one.
C17_TermIsXTimesY ==
    (pc = "commit_state") =>
        Board_to_hash(array)
            = FnvFold(TermsOf(LAMBDA x, y : x * y), width * height)

\* C17, amended: the fingerprint is the fold, over the interior cells in
\* row-major order, of the terms (x + x) * (y + y) = 4 * x * y for a live
\* cell and 0 for a dead one.
C17_TermIsFourXY ==
    (pc = "commit_state") =>
        Board_to_hash(array)
            = FnvFold(TermsOf(LAMBDA x, y : 4 * x * y), width * height)

\* a board wider than high, with live and dead cells in different rows
\* and columns
C17_Witness ==
    /\ pc = "commit_state"
    /\ width > height
    /\ \E p \in LivePoints(array) : \E q \in LivePoints(array) :
          p[1] # q[1] /\ p[2] # q[2]
    /\ LivePoints(array) # InteriorPoints(width, height)

\* the slots of the history that an enqueue has written
WrittenSlots ==
    {(old_hash.write + Capacity - j) % Capacity : j \in 1 .. Min(gen, Capacity)}

\* C18: every fingerprint is odd, hence never 0, the value the history is
\* filled with; so is_done never matches a slot that was never written.
C18_FingerprintIsOdd ==
    /\ \A i \in DOMAIN hashed : hashed[i][1] % 2 = 1 /\ hashed[i] # ZeroHash
    /\ \A i \in DOMAIN old_hash.buf :
          i \notin WrittenSlots => old_hash.buf[i] = ZeroHash
    /\ (pc = "done") =>
          \A h \in {Board_to_hash(array)} :
              /\ h[1] % 2 = 1
              /\ h # ZeroHash
              /\ \A i \in DOMAIN old_hash.buf :
                    old_hash.buf[i] = h => i \in WrittenSlots

\* is_done was true while the history still had a slot never written,
\* holding 0
C18_Witness ==
    /\ pc = "done"
    /\ gen >= 1
    /\ gen < Capacity
    /\ \E i \in DOMAIN old_hash.buf :
          i \notin WrittenSlots /\ old_hash.buf[i] = ZeroHash

\* C19: on a buffer of capacity C >= 1, after any enqueues and dequeues,
\* 0 <= buf_size <= C, write and read are within 0 .. C, buf_size is the
\* number of values enqueued and neither dequeued nor evicted (at most C),
\* and read = write - buf_size modulo C.
C19_CursorInvariant ==
    (rb.buf_capacity >= 1) =>
        /\ rb.buf_size \in 0 .. rb.buf_capacity
        /\ rb.write \in 0 .. rb.buf_capacity
        /\ rb.read \in 0 .. rb.buf_capacity
        /\ rb.buf_size = Min(rb.buf_capacity, Len(pending))
        /\ (rb.read + rb.buf_size) % rb.buf_capacity
              = rb.write % rb.buf_capacity

\* both cursors have wrapped: read is at C, write behind it, after an
\* eviction and a dequeue
C19_Witness ==
    /\ rb.buf_capacity = MaxCap
    /\ Len(enq_log) > rb.buf_capacity
    /\ \E i \in DOMAIN deq_log : deq_log[i].ret # None
    /\ rb.read = rb.buf_capacity
    /\ rb.write < rb.read
    /\ rb.buf_size >= 1

====
